---- MODULE Spec2Model ----
(***************************************************************************)
(* EVE meeting assistant: the insight-extraction pipeline of its three     *)
(* client variants and of the backend route.                               *)
(*                                                                         *)
(*   "app"    src/src/App.jsx               recorder + Whisper + GPT-4,    *)
(*                                          called from the browser        *)
(*   "batch"  src/unnamed/part_000:1-566    recorder + /api/transcribe +   *)
(*                                          /api/analyze                   *)
(*   "stream" src/unnamed/part_000:568-1258 browser speech recognition +   *)
(*                                          local keyword analysis         *)
(*   server   src/unnamed/part_001          POST /api/analyze              *)
(*                                                                         *)
(* A fifth kind of behaviour, "extract", calls the two keyword extractors  *)
(* of part_000 on texts put together from a set of sentences.              *)
(*                                                                         *)
(* JavaScript strings are TLA+ strings; the string functions of the code   *)
(* (split, trim, toLowerCase, includes) are computed character by          *)
(* character.  Non-ASCII letters of the source's literals are written      *)
(* without their diacritics.  The streaming component in a browser without *)
(* speech recognition (part_000:587-590) only shows a notice and is left   *)
(* out.                                                                    *)
(***************************************************************************)
EXTENDS Integers, Sequences, FiniteSets, TLC

(***************************************************************************)
(* Bounds of the model.                                                    *)
(***************************************************************************)
\* user clicks on Start in one behaviour
MaxStarts == 2
\* finalized fragments one recognizer delivers
MaxFragments == 1
\* steps of the wall clock
MaxTicks == 1

\* seconds the wall clock advances in one step
TickSeconds == 90

(***************************************************************************)
(* JavaScript string and number functions.                                 *)
(***************************************************************************)
Min(a, b) == IF a < b THEN a ELSE b
Max(a, b) == IF a > b THEN a ELSE b

\* s[i] (1-based)
charAt(s, i) == SubSeq(s, i, i)

\* the characters \s matches, as far as the texts of the model hold them
WhiteSpace == {" ", "\n", "\t"}

\* the characters of the class [.!?]
SentenceEnd == {".", "!", "?"}

UpperCase == "ABCDEFGHIJKLMNOPQRSTUVWXYZ"
LowerCase == "abcdefghijklmnopqrstuvwxyz"
UpperLetters == {charAt(UpperCase, i) : i \in 1..Len(UpperCase)}
lowerOf ==
  [c \in UpperLetters |->
     charAt(LowerCase, CHOOSE i \in 1..Len(UpperCase) : charAt(UpperCase, i) = c)]

lowerChar(c) == IF c \in UpperLetters THEN lowerOf[c] ELSE c

\* s.toLowerCase(), one half of the string after the other
RECURSIVE toLowerCase(_)
toLowerCase(s) ==
  IF Len(s) = 0 THEN ""
  ELSE IF Len(s) = 1 THEN lowerChar(s)
  ELSE toLowerCase(SubSeq(s, 1, Len(s) \div 2))
       \o toLowerCase(SubSeq(s, Len(s) \div 2 + 1, Len(s)))

\* s.includes(k)
includes(s, k) ==
  \E i \in 1..(Len(s) - Len(k) + 1) : SubSeq(s, i, i + Len(k) - 1) = k

\* s.trim(): from the first to the last character that is no white space
trim(s) ==
  LET inked(i) == charAt(s, i) \notin WhiteSpace
  IN IF \A i \in 1..Len(s) : ~inked(i) THEN ""
     ELSE SubSeq(s, CHOOSE i \in 1..Len(s) : inked(i) /\ \A j \in 1..(i - 1) : ~inked(j),
                    CHOOSE i \in 1..Len(s) : inked(i) /\ \A j \in (i + 1)..Len(s) : ~inked(j))

\* the elements of a set of numbers in increasing order
sorted(S) ==
  [k \in 1..Cardinality(S) |-> CHOOSE x \in S : Cardinality({y \in S : y < x}) = k - 1]

\* s.split(/[class]+/): the maximal runs of characters outside the class, with
\* an empty piece before a leading and after a trailing separator
split(s, class) ==
  LET inClass(i) == charAt(s, i) \in class
      first == sorted({i \in 1..Len(s) : ~inClass(i) /\ (i = 1 \/ inClass(i - 1))})
      last == sorted({i \in 1..Len(s) : ~inClass(i) /\ (i = Len(s) \/ inClass(i + 1))})
      pieces == [k \in 1..Len(first) |-> SubSeq(s, first[k], last[k])]
  IN IF Len(s) = 0 THEN <<"">>
     ELSE (IF inClass(1) THEN <<"">> ELSE <<>>)
          \o pieces
          \o (IF inClass(Len(s)) THEN <<"">> ELSE <<>>)

\* text.split(/[.!?]+/)
splitSentences(text) == split(text, SentenceEnd)

\* s.split(/\s+/).length: the runs of characters that are no white space, and
\* the empty piece before a leading and after a trailing separator
wordCountOf(s) ==
  LET isSpace(i) == charAt(s, i) \in WhiteSpace
  IN IF Len(s) = 0 THEN 1
     ELSE Cardinality({i \in 1..Len(s) : ~isSpace(i) /\ (i = 1 \/ isSpace(i - 1))})
          + (IF isSpace(1) THEN 1 ELSE 0)
          + (IF isSpace(Len(s)) THEN 1 ELSE 0)

\* p.split(' ')[0]
firstWord(p) == split(p, {" "})[1]

\* arr.slice(0, n)
slice(arr, n) == SubSeq(arr, 1, Min(n, Len(arr)))

\* arr.includes(x)
arrayIncludes(arr, x) == \E i \in 1..Len(arr) : arr[i] = x

\* Math.ceil(seconds / 60)
ceilMinutes(seconds) == (seconds + 59) \div 60

\* sessionDuration > 0 ? Math.round(wordCount / (sessionDuration / 60)) : 0
speakingRate(wordCount, seconds) ==
  IF seconds > 0 THEN (120 * wordCount + seconds) \div (2 * seconds) ELSE 0

(***************************************************************************)
(* part_000:224-262 generateFallbackInsights (batch variant).              *)
(* sessionDuration is the value the closure holds.                         *)
(***************************************************************************)
fbActionKeywords == <<"moeten", "zullen", "gaan", "plannen", "afspreken", "regelen", "zorgen", "doen">>
fbDecisionKeywords == <<"beslissen", "besluiten", "kiezen", "akkoord", "eens", "vastleggen">>
fbTimeKeywords == <<"morgen", "volgende week", "maandag", "dinsdag", "einde", "deadline">>

\* keywords.some(keyword => s.toLowerCase().includes(keyword))
matchesAny(s, keywords) ==
  LET lower == toLowerCase(s)
  IN \E i \in 1..Len(keywords) : includes(lower, keywords[i])

fbActionItem(s) ==
  [task |-> trim(s),
   who |-> "te bepalen",
   when |-> IF matchesAny(s, fbTimeKeywords) THEN "termijn genoemd" ELSE "te plannen",
   priority |-> "gemiddeld"]

\* part_000:259 the blockers field; words is text.toLowerCase()
fbBlockers(words) ==
  IF includes(words, "probleem") \/ includes(words, "blocker")
  THEN <<"Mogelijke blockers genoemd">>
  ELSE <<>>

generateFallbackInsights(text, sessionDuration) ==
  LET sentences == SelectSeq(splitSentences(text), LAMBDA s : Len(trim(s)) > 0)
      picked == slice(SelectSeq(sentences, LAMBDA s : matchesAny(s, fbActionKeywords)), 4)
      actionItems == [i \in 1..Len(picked) |-> fbActionItem(picked[i])]
      decisions == slice(SelectSeq(sentences, LAMBDA s : matchesAny(s, fbDecisionKeywords)), 3)
      keyInsights == slice(SelectSeq(sentences, LAMBDA s : Len(s) > 50 /\ Len(s) < 200), 4)
  IN [meetingType |-> "overleg",
      keyDecisions |-> IF Len(decisions) > 0 THEN decisions
                       ELSE <<"Geen expliciete beslissingen geidentificeerd">>,
      actionItems |-> IF Len(actionItems) > 0 THEN actionItems
                      ELSE <<[task |-> "Actiepunten verduidelijken", who |-> "alle deelnemers",
                              when |-> "volgende meeting", priority |-> "gemiddeld"]>>,
      keyInsights |-> IF Len(keyInsights) > 0 THEN keyInsights
                      ELSE <<"Gesprek bevat waardevolle informatie die verdere analyse vereist">>,
      followUpNeeded |-> <<"Follow-up bepalen na review">>,
      participants |-> <<"Meerdere sprekers gedetecteerd">>,
      nextSteps |-> <<"Volgende stappen plannen">>,
      blockers |-> fbBlockers(toLowerCase(text)),
      summary |-> ToString(ceilMinutes(sessionDuration)) \o " minuten gesprek met "
                  \o ToString(Len(sentences)) \o " hoofdpunten besproken"]

(***************************************************************************)
(* part_000:728-863 generateLocalInsights (streaming variant).             *)
(* sessionDuration is the value the closure holds.                         *)
(***************************************************************************)
actionKeywordsHoog == <<"urgent", "direct", "onmiddellijk", "snel", "belangrijk", "kritiek", "prioriteit", "meteen">>
actionKeywordsGemiddeld == <<"moeten", "zullen", "gaan", "plannen", "afspreken", "regelen", "zorgen", "doen", "organiseren", "voorbereiden", "maken">>
actionKeywordsLaag == <<"overwegen", "bekijken", "denken", "misschien", "eventueel", "mogelijk", "later">>
decisionKeywords == <<"beslissen", "besluiten", "kiezen", "akkoord", "eens", "vastleggen", "bepalen", "afspreken", "goedkeuren", "besloten">>
timeKeywords == <<"morgen", "overmorgen", "volgende week", "maandag", "dinsdag", "woensdag", "donderdag", "vrijdag", "weekend", "einde van de week", "deadline", "voor vrijdag", "deze week", "volgende maand">>
personKeywords == <<"ik zal", "jij gaat", "hij moet", "zij zal", "we moeten", "jullie gaan", "team", "iedereen", "jan", "peter", "marie", "sarah">>
problemKeywords == <<"probleem", "issue", "blocker", "uitdaging", "moeilijk", "niet mogelijk", "kan niet", "gaat niet", "lukt niet", "lastig">>
nextStepKeywords == <<"volgende stap", "daarna", "vervolgens", "dan gaan we", "volgende keer", "volgende">>

\* a chain that tests the tiers from the lowest to the highest
priorityOfLowestTier(sentence) ==
  IF matchesAny(sentence, actionKeywordsLaag) THEN "laag"
  ELSE IF matchesAny(sentence, actionKeywordsGemiddeld) THEN "gemiddeld"
  ELSE IF matchesAny(sentence, actionKeywordsHoog) THEN "hoog"
  ELSE "gemiddeld"

\* the if / else-if chain of part_000:754-763
priorityOf(sentence) ==
  IF matchesAny(sentence, actionKeywordsHoog) THEN "hoog"
  ELSE IF matchesAny(sentence, actionKeywordsGemiddeld) THEN "gemiddeld"
  ELSE IF matchesAny(sentence, actionKeywordsLaag) THEN "laag"
  ELSE "gemiddeld"

foundAction(sentence) ==
  \/ matchesAny(sentence, actionKeywordsHoog)
  \/ matchesAny(sentence, actionKeywordsGemiddeld)
  \/ matchesAny(sentence, actionKeywordsLaag)

\* keywords.forEach(k => { if (sentence.toLowerCase().includes(k)) { v = k } }):
\* the value left by the loop is the last keyword of the list that matches
forEachMatch(sentence, keywords, initial) ==
  LET lower == toLowerCase(sentence)
      hits == {i \in 1..Len(keywords) : includes(lower, keywords[i])}
  IN IF hits = {} THEN initial
     ELSE keywords[CHOOSE i \in hits : \A j \in hits : j <= i]

whoOf(sentence) ==
  LET person == forEachMatch(sentence, personKeywords, "")
  IN IF person = "" THEN "te bepalen" ELSE firstWord(person)

whenOf(sentence) == forEachMatch(sentence, timeKeywords, "te plannen")

isActionSentence(sentence) == foundAction(sentence) /\ Len(sentence) > 15

actionItemOf(sentence) ==
  [task |-> trim(sentence),
   who |-> whoOf(sentence),
   when |-> whenOf(sentence),
   priority |-> priorityOf(sentence)]

\* a chain in which the first rule that holds decides
meetingTypeFirstRuleWins(words, nDecisions, nActions) ==
  IF includes(words, "brainstorm") \/ includes(words, "ideeen") THEN "brainstorm"
  ELSE IF nDecisions > 2 THEN "beslissing"
  ELSE IF includes(words, "update") \/ includes(words, "status") THEN "update"
  ELSE IF nActions > 3 THEN "planning"
  ELSE IF includes(words, "retrospectief") \/ includes(words, "evaluatie") THEN "evaluatie"
  ELSE "overleg"

\* part_000:815-821; words is text.toLowerCase()
meetingTypeOf(words, nDecisions, nActions) ==
  LET t0 == "overleg"
      t1 == IF includes(words, "brainstorm") \/ includes(words, "ideeen") THEN "brainstorm" ELSE t0
      t2 == IF nDecisions > 2 THEN "beslissing" ELSE t1
      t3 == IF includes(words, "update") \/ includes(words, "status") THEN "update" ELSE t2
      t4 == IF nActions > 3 THEN "planning" ELSE t3
  IN IF includes(words, "retrospectief") \/ includes(words, "evaluatie") THEN "evaluatie" ELSE t4

\* part_000:827-837
followUpOf(actionItems, blockers) ==
  (IF \E i \in 1..Len(actionItems) : actionItems[i].who = "te bepalen"
   THEN <<"Verantwoordelijken toewijzen voor actiepunten">> ELSE <<>>)
  \o (IF \E i \in 1..Len(actionItems) : actionItems[i].when = "te plannen"
      THEN <<"Deadlines bepalen voor actiepunten">> ELSE <<>>)
  \o (IF Len(blockers) > 0
      THEN <<"Oplossingen bespreken voor genoemde problemen">> ELSE <<>>)

\* part_000:850, the blockers field of insightsData
localBlockers(blockers) == blockers

generateLocalInsights(text, sessionDuration) ==
  LET sentences == SelectSeq(splitSentences(text), LAMBDA s : Len(trim(s)) > 10)
      acting == SelectSeq(sentences, isActionSentence)
      actionItems == [i \in 1..Len(acting) |-> actionItemOf(acting[i])]
      decisions == slice(SelectSeq(sentences, LAMBDA s : matchesAny(s, decisionKeywords)), 5)
      inBand == SelectSeq(sentences, LAMBDA s : Len(s) > 25 /\ Len(s) < 150)
      notAction == SelectSeq(inBand, LAMBDA s :
                      ~ \E i \in 1..Len(actionItems) : actionItems[i].task = trim(s))
      keyInsights == slice(SelectSeq(notAction, LAMBDA s : ~ arrayIncludes(decisions, s)), 6)
      blockers == slice(SelectSeq(sentences, LAMBDA s : matchesAny(s, problemKeywords)), 4)
      nextSteps == slice(SelectSeq(sentences, LAMBDA s : matchesAny(s, nextStepKeywords)), 5)
      words == toLowerCase(text)
      meetingType == meetingTypeOf(words, Len(decisions), Len(actionItems))
      duration == ceilMinutes(sessionDuration)
      wordCount == wordCountOf(trim(text))
      followUpNeeded == followUpOf(actionItems, blockers)
      speakers == Cardinality({i \in 1..Len(personKeywords) :
                                  includes(words, firstWord(personKeywords[i]))})
  IN [meetingType |-> meetingType,
      summary |-> ToString(duration) \o " minuten " \o meetingType \o " met "
                  \o ToString(Len(sentences)) \o " hoofdpunten besproken. "
                  \o ToString(Len(actionItems)) \o " actiepunten geidentificeerd"
                  \o (IF Len(decisions) > 0
                      THEN " en " \o ToString(Len(decisions)) \o " beslissingen genomen"
                      ELSE "")
                  \o ".",
      keyDecisions |-> IF Len(decisions) > 0 THEN decisions
                       ELSE <<"Geen expliciete beslissingen gedetecteerd">>,
      actionItems |-> IF Len(actionItems) > 0 THEN slice(actionItems, 8)
                      ELSE <<[task |-> "Actiepunten uit gesprek verduidelijken", who |-> "team",
                              when |-> "voor volgende meeting", priority |-> "gemiddeld"]>>,
      keyInsights |-> IF Len(keyInsights) > 0 THEN keyInsights
                      ELSE <<"Gesprek bevat waardevolle informatie voor verdere uitwerking">>,
      followUpNeeded |-> IF Len(followUpNeeded) > 0 THEN followUpNeeded
                         ELSE <<"Follow-up bepalen na review">>,
      participants |-> <<ToString(Max(1, speakers)) \o " sprekers gedetecteerd">>,
      nextSteps |-> IF Len(nextSteps) > 0 THEN nextSteps ELSE <<"Volgende stappen plannen">>,
      blockers |-> localBlockers(blockers),
      stats |-> [wordCount |-> wordCount,
                 sentences |-> Len(sentences),
                 actionItems |-> Len(actionItems),
                 decisions |-> Len(decisions),
                 duration |-> sessionDuration,
                 speakingRate |-> speakingRate(wordCount, sessionDuration)]]


(***************************************************************************)
(* Values that cross the network.                                          *)
(***************************************************************************)
\* JavaScript null, and a JSON value that is no object, as records so that
\* they compare with the records insights holds
NULL == [isNull |-> TRUE]
Scalar(v) == [scalar |-> v]
isObject(v) == ~ ("isNull" \in DOMAIN v \/ "scalar" \in DOMAIN v)
\* JavaScript truthiness of a value that insights may hold
truthy(v) == v # NULL /\ v # Scalar(0)

\* what setTranscript(undefined) stores
UNDEFINED == "<undefined>"

\* result.text of a transcription
TextPlan == "We moeten morgen de planning afronden. Jan zal het rapport schrijven."
TextProbleem == "Er is een probleem met de server en dat is lastig."
Texts == {"", "  ", TextPlan, TextProbleem}

\* texts of model replies (choices[0].message.content)
ReplyFull == "{\"meetingType\":\"planning\",\"summary\":\"s\",\"keyDecisions\":[\"d\"],\"actionItems\":[{\"task\":\"t\",\"who\":\"Jan\",\"when\":\"morgen\",\"priority\":\"hoog\"}],\"keyInsights\":[\"i\"],\"followUpNeeded\":[\"f\"],\"nextSteps\":[\"n\"],\"blockers\":[\"b\"],\"participants\":[\"Jan\"]}"
ReplySparse == "{\"meetingType\":\"overleg\",\"summary\":\"s\",\"keyDecisions\":[],\"actionItems\":[]}"
\* a reply whose enum fields hold values outside their sets
ReplyBadEnum == "{\"meetingType\":\"kickoff\",\"summary\":\"s\",\"keyDecisions\":[\"d\"],\"actionItems\":[{\"task\":\"t\",\"who\":\"Jan\",\"when\":\"morgen\",\"priority\":\"urgent\"}],\"sentiment\":\"blij\",\"urgency\":\"asap\"}"
ReplyNotJson == "not json"
ReplyNull == "null"
ReplyNumber == "42"
\* the fence of a markdown code block: three backquotes, written with the
\* apostrophe because a TLA+ string cannot hold a backquote
Fence == "'''"
FenceOpen == Fence \o "json"
ReplyFenced == FenceOpen \o "\n" \o ReplyFull \o "\n" \o Fence
Replies == {ReplyFull, ReplySparse, ReplyBadEnum, ReplyNotJson, ReplyNull, ReplyNumber, ReplyFenced}

SyntaxError == [throws |-> "SyntaxError"]

\* JSON.parse on the reply texts of the model: JSON allows white space around
\* the value; any other text is a SyntaxError
jsonParse(text) ==
  LET t == trim(text)
  IN CASE t = ReplyFull ->
            [meetingType |-> "planning", summary |-> "s", keyDecisions |-> <<"d">>,
             actionItems |-> <<[task |-> "t", who |-> "Jan", when |-> "morgen", priority |-> "hoog"]>>,
             keyInsights |-> <<"i">>, followUpNeeded |-> <<"f">>, nextSteps |-> <<"n">>,
             blockers |-> <<"b">>, participants |-> <<"Jan">>]
       [] t = ReplySparse ->
            [meetingType |-> "overleg", summary |-> "s", keyDecisions |-> <<>>, actionItems |-> <<>>]
       [] t = ReplyBadEnum ->
            [meetingType |-> "kickoff", summary |-> "s", keyDecisions |-> <<"d">>,
             actionItems |-> <<[task |-> "t", who |-> "Jan", when |-> "morgen", priority |-> "urgent"]>>,
             sentiment |-> "blij", urgency |-> "asap"]
       [] t = ReplyNull -> NULL
       [] t = ReplyNumber -> Scalar(42)
       [] OTHER -> SyntaxError

\* { ...a, ...b }: the own properties of an object; null and numbers have none
spread(a, b) ==
  LET da == IF isObject(a) THEN DOMAIN a ELSE {}
  IN [k \in da \cup DOMAIN b |-> IF k \in DOMAIN b THEN b[k] ELSE a[k]]

\* what a fetch of a remote endpoint can end in
\*   reject    the promise rejects (network unreachable)
\*   http      a response whose ok is false
\*   nofield   a 2xx JSON body without the text field
\*   ok        a 2xx JSON body holding text
\* A 2xx response whose body is no JSON, and a completion without choices,
\* throw into the catch block that a rejected fetch reaches.
Fail(kind) == [kind |-> kind, text |-> ""]
Ok(text) == [kind |-> "ok", text |-> text]
FailureKinds == {"reject", "http"}
\* App.jsx:196-227: a transcription without text throws at App.jsx:417, as
\* the failures do
WhisperOutcomes == {Fail(k) : k \in FailureKinds} \cup {Ok(t) : t \in {"", TextPlan}}
\* part_000:156-174
TranscriptionOutcomes ==
  {Fail(k) : k \in FailureKinds \cup {"nofield"}} \cup {Ok(t) : t \in Texts}
CompletionOutcomes == {Fail(k) : k \in FailureKinds} \cup {Ok(r) : r \in Replies}

(***************************************************************************)
(* part_001:75-162 POST /api/analyze                                       *)
(***************************************************************************)
startsWithAt(s, i, p) == i + Len(p) - 1 <= Len(s) /\ SubSeq(s, i, i + Len(p) - 1) = p

\* the index after the run of white space that starts at i
wsEnd(s, i) ==
  CHOOSE j \in i..(Len(s) + 1) :
     /\ (j = Len(s) + 1 \/ charAt(s, j) \notin WhiteSpace)
     /\ \A k \in i..(j - 1) : charAt(s, k) \in WhiteSpace

\* the length of the match of /```json\s*|\s*```/ that starts at i, 0 for none
matchLen(s, i) ==
  IF startsWithAt(s, i, FenceOpen) THEN wsEnd(s, i + Len(FenceOpen)) - i
  ELSE IF charAt(s, i) \in WhiteSpace
       THEN (IF startsWithAt(s, wsEnd(s, i), Fence) THEN wsEnd(s, i) + Len(Fence) - i ELSE 0)
       ELSE (IF startsWithAt(s, i, Fence) THEN Len(Fence) ELSE 0)

\* s.replace(/```json\s*|\s*```/g, ''), from index `from` on
RECURSIVE replaceFrom(_, _)
replaceFrom(s, from) ==
  LET hits == {i \in from..Len(s) : matchLen(s, i) > 0}
  IN IF hits = {} THEN SubSeq(s, from, Len(s))
     ELSE LET i == CHOOSE h \in hits : \A g \in hits : h <= g
          IN SubSeq(s, from, i - 1) \o replaceFrom(s, i + matchLen(s, i))

\* part_001:144
stripFence(analysisText) == trim(replaceFrom(analysisText, 1))

Response(status, body, upstream) == [status |-> status, body |-> body, upstream |-> upstream]
responseOk(r) == r.status >= 200 /\ r.status <= 299

\* a route that sends its upstream request a second time when the first fails
analyzeRouteWithRetry(hasKey, reqTranscript, up) ==
  IF ~hasKey THEN Response(401, [error |-> "No OpenAI API key configured"], 0)
  ELSE IF reqTranscript = "" THEN Response(400, [error |-> "No transcript provided"], 0)
  ELSE IF up.kind = "http" THEN Response(429, [error |-> "Analysis failed"], 2)
  ELSE IF up.kind = "reject" THEN Response(500, [error |-> "Server error"], 2)
  ELSE LET analysis == jsonParse(stripFence(up.text))
       IN IF analysis = SyntaxError \/ analysis = NULL
          THEN Response(500, [error |-> "Invalid response format"], 1)
          ELSE IF ~isObject(analysis) THEN Response(200, analysis, 1)
          ELSE Response(200, spread(analysis, [processingMethod |-> "whisper+gpt4",
                                               processedAt |-> "now"]), 1)

\* the route's answer to a request with this transcript, for one outcome of
\* its upstream fetch; upstream counts the requests it sends to the model.
\* server.js is not in strict mode: setting a property on a number does
\* nothing, setting one on null throws inside the inner try
analyzeRoute(hasKey, reqTranscript, up) ==
  IF ~hasKey THEN Response(401, [error |-> "No OpenAI API key configured"], 0)
  ELSE IF reqTranscript = "" THEN Response(400, [error |-> "No transcript provided"], 0)
  ELSE IF up.kind = "http" THEN Response(429, [error |-> "Analysis failed"], 1)
  ELSE IF up.kind = "reject" THEN Response(500, [error |-> "Server error"], 1)
  ELSE LET analysis == jsonParse(stripFence(up.text))
       IN IF analysis = SyntaxError \/ analysis = NULL
          THEN Response(500, [error |-> "Invalid response format"], 1)
          ELSE IF ~isObject(analysis) THEN Response(200, analysis, 1)
          ELSE Response(200, spread(analysis, [processingMethod |-> "whisper+gpt4",
                                               processedAt |-> "now"]), 1)

(***************************************************************************)
(* State.                                                                  *)
(***************************************************************************)
VARIABLES
  variant,            \* which program this behaviour runs: "app", "batch", "stream", "server"
  hasOpenAIKey,       \* App.jsx:29 import.meta.env.VITE_OPENAI_API_KEY is set
  serverHasKey,       \* part_001:77 process.env.OPENAI_API_KEY is set
  processingMode,     \* App.jsx:19
  isRecording,        \* App.jsx:6
  isListening,        \* part_000:5 / 572
  transcript,         \* useState('')
  insights,           \* useState(null)
  error,              \* useState('')
  sessionActive,      \* useState(false)
  isProcessing,       \* App.jsx:14, part_000:8
  sessionDuration,    \* useState(0)
  showPermissionModal,\* part_000:11 / 577
  permissionStatus,   \* part_000:12 / 578
  mediaRecorderRef,   \* index into recorders, 0 for null
  streamRef,          \* index into recorders (each has its stream), 0 for null
  recognitionRef,     \* part_000:581, index into recognizers
  timerLive,          \* the interval timerRef.current names is running
  leakedTimer,        \* an interval no ref names any more is running
  startTimeRef,       \* startTimeRef.current, -1 for null
  now,                \* wall clock, seconds
  starts,             \* requests for the microphone (calls of an extractor) so far
  pendingChecks,      \* closures of requestMicrophoneAccess awaiting checkMicrophonePermission
  pendingStarts,      \* closures of startRecording / startListening awaiting getUserMedia
  recorders,          \* the MediaRecorders created, each with its stream and closure
  recognizers,        \* the SpeechRecognition objects the effect of part_000:585 created
  runs,               \* invocations of processAudio / processAudioIntelligently in flight
  last,               \* what the extraction that finished last did and left behind
  response            \* the last answer of POST /api/analyze

config == <<variant, hasOpenAIKey, serverHasKey>>
appState == <<processingMode, isRecording>>
modalState == <<showPermissionModal, permissionStatus, pendingChecks>>
recognition == <<recognitionRef, recognizers>>
recording == <<mediaRecorderRef, streamRef, recorders>>
timers == <<timerLive, leakedTimer, startTimeRef>>

vars == <<variant, hasOpenAIKey, serverHasKey, processingMode, isRecording, isListening,
          transcript, insights, error, sessionActive, isProcessing, sessionDuration,
          showPermissionModal, permissionStatus, mediaRecorderRef, streamRef,
          recognitionRef, timerLive, leakedTimer, startTimeRef, now, starts,
          pendingChecks, pendingStarts, recorders, recognizers, runs, last, response>>

Modes == {"auto", "api-only", "local-only"}

\* sentences of a meeting, without their full stop
Sentences ==
  {"We moeten morgen de planning afronden",
   "Jan zal het rapport schrijven",
   "Dit is urgent maar misschien kan het later",
   "Misschien is dit punt toch heel urgent",
   "We gaan eventueel de offerte bekijken",
   "Eventueel gaan we de offerte bekijken",
   "We zijn het eens dat het budget volgend jaar omhoog moet worden gebracht",
   "Er is een probleem met de server en dat is lastig",
   "Jan en Peter moeten morgen voor de deadline leveren"}

\* six decision sentences without an action keyword: one more than the cap of
\* part_000:795
TextDecisions ==
  "Wij kiezen voor leverancier nummer een. Wij kiezen voor leverancier nummer twee. "
  \o "Wij kiezen voor leverancier nummer drie. Wij kiezen voor leverancier nummer vier. "
  \o "Wij kiezen voor leverancier nummer vijf. Wij kiezen voor leverancier nummer zes."

\* four action sentences: one more than the bound of part_000:819
TextActions ==
  "We moeten morgen de planning afronden. Dit is urgent maar misschien kan het later. "
  \o "Misschien is dit punt toch heel urgent. We gaan eventueel de offerte bekijken."

\* the words of part_000:816, 818, 820 that name a kind of meeting
TypeWords == {"brainstorm", "update", "evaluatie"}

\* closing sentences that hold the words of `present`
typeSentences(present) ==
  (IF "evaluatie" \in present THEN " Eerst kwam de evaluatie." ELSE "")
  \o (IF "update" \in present THEN " Dit is de status update." ELSE "")
  \o (IF "brainstorm" \in present THEN " Dit was een brainstorm." ELSE "")

\* longer texts, with every combination of the words that name a kind
LongTexts ==
  {base \o typeSentences(present) :
     base \in {TextPlan, TextDecisions, TextActions}, present \in SUBSET TypeWords}

\* the texts the extractors are called with: one sentence, or two, or a
\* longer text
ExtractTexts ==
  {s \o "." : s \in Sentences} \cup {s \o ". " \o r \o "." : s \in Sentences, r \in Sentences}
  \cup LongTexts

\* the session durations the extractors are called with
ExtractDurations == {0, TickSeconds}

\* the values of a render that the functions defined in it close over
Closure == [processingMode |-> processingMode, sessionDuration |-> sessionDuration]

\* what is left of the closure of a recorder whose stop event has fired: its
\* handlers are never called again
NoClosure == [processingMode |-> "", sessionDuration |-> 0]

\* no extraction has finished since the session began
NoRun ==
  [path |-> "none", failure |-> "", text |-> "", transcriptions |-> 0,
   completions |-> 0, transcript |-> "", insights |-> NULL, error |-> "",
   isProcessing |-> FALSE]

NoResponse == Response(0, NULL, 0)

\* new SpeechRecognition() in a render whose isListening is `listening`
Recognizer(listening) == [state |-> "idle", isListening |-> listening, results |-> 0]

Init ==
  /\ variant \in {"app", "batch", "stream", "server", "extract"}
  /\ hasOpenAIKey \in BOOLEAN
  /\ serverHasKey \in BOOLEAN
  /\ (variant \notin {"batch", "server"} => ~serverHasKey)
  /\ (variant # "app" => ~hasOpenAIKey)
  /\ processingMode = "auto"
  /\ isRecording = FALSE
  /\ isListening = FALSE
  /\ transcript \in (IF variant = "extract" THEN ExtractTexts ELSE {""})
  /\ insights = NULL
  /\ error = ""
  /\ sessionActive = FALSE
  /\ isProcessing = FALSE
  /\ sessionDuration \in (IF variant = "extract" THEN ExtractDurations ELSE {0})
  /\ showPermissionModal = FALSE
  /\ permissionStatus = "prompt"
  /\ mediaRecorderRef = 0
  /\ streamRef = 0
  /\ recognizers = IF variant = "stream" THEN <<Recognizer(FALSE)>> ELSE <<>>
  /\ recognitionRef = IF variant = "stream" THEN 1 ELSE 0
  /\ timerLive = FALSE
  /\ leakedTimer = FALSE
  /\ startTimeRef = -1
  /\ now = 0
  /\ starts = 0
  /\ pendingChecks = <<>>
  /\ pendingStarts = <<>>
  /\ recorders = <<>>
  /\ runs = <<>>
  /\ last = NoRun
  /\ response = NoResponse

\* the sequence without its i-th element
RemoveAt(seq, i) == SubSeq(seq, 1, i - 1) \o SubSeq(seq, i + 1, Len(seq))

(***************************************************************************)
(* The wall clock and the duration timers.                                 *)
(* App.jsx:36-40, part_000:78-82, part_000:694-698: every running interval *)
(* sets sessionDuration to the seconds since startTimeRef.current.  The    *)
(* program reads the clock for differences only, so the clock of the model *)
(* advances only while an interval is there to see it.                     *)
(***************************************************************************)
Tick ==
  /\ timerLive \/ leakedTimer
  /\ startTimeRef # -1
  /\ now < MaxTicks * TickSeconds
  /\ now' = now + TickSeconds
  /\ sessionDuration' = now' - startTimeRef
  /\ UNCHANGED <<config, appState, isListening, transcript, insights, error, sessionActive,
                 isProcessing, modalState, recording, recognition, timers, starts,
                 pendingStarts, runs, last, response>>

(***************************************************************************)
(* The end of an extraction: the state it sets, and the note in last.      *)
(* An effect holds the values the handler leaves in transcript, insights,  *)
(* error and isProcessing, the path it took and the failure it met.        *)
(***************************************************************************)
Effect(t, ins, err, proc, path, failure) ==
  [transcript |-> t, insights |-> ins, error |-> err, isProcessing |-> proc,
   path |-> path, failure |-> failure]

NewRun(rec, cl, pc) ==
  [rec |-> rec, cl |-> cl, pc |-> pc, text |-> "", transcriptions |-> 0, completions |-> 0]

Finish(run, eff) ==
  /\ transcript' = eff.transcript
  /\ insights' = eff.insights
  /\ error' = eff.error
  /\ isProcessing' = eff.isProcessing
  /\ last' = [path |-> eff.path, failure |-> eff.failure, text |-> run.text,
              transcriptions |-> run.transcriptions,
              completions |-> run.completions, transcript |-> eff.transcript,
              insights |-> eff.insights, error |-> eff.error,
              isProcessing |-> eff.isProcessing]

(***************************************************************************)
(* App.jsx                                                                 *)
(***************************************************************************)
\* App.jsx:30, over the processingMode of a render
isAPIMode(mode) == mode = "api-only" \/ (mode = "auto" /\ hasOpenAIKey)

\* App.jsx:573, 585 (disabled={!hasOpenAIKey}), 598: the mode buttons
apiOnlyEnabled == hasOpenAIKey

setProcessingMode(m) ==
  /\ variant = "app"
  /\ m # processingMode
  /\ (m = "api-only" => apiOnlyEnabled)
  /\ processingMode' = m
  /\ UNCHANGED <<config, isRecording, isListening, transcript, insights, error,
                 sessionActive, isProcessing, sessionDuration, modalState, recording,
                 recognition, timers, now, starts, pendingStarts, runs, last, response>>

\* App.jsx:86-104 handleError: the notice chosen from error.message
handleErrorMessage(message) ==
  "Er is een fout opgetreden. " \o
  (IF includes(message, "API key") \/ includes(message, "Unauthorized")
   THEN "Controleer je OpenAI API configuratie."
   ELSE IF includes(message, "network") \/ includes(message, "fetch")
   THEN "Controleer je internetverbinding."
   ELSE IF includes(message, "quota") \/ includes(message, "limit")
   THEN "API quota bereikt. Probeer later opnieuw."
   ELSE "Probeer opnieuw of schakel over naar lokale modus.")

\* App.jsx:705-718: the Start button is rendered while !sessionActive and is
\* disabled by an error; App.jsx:107-113 startRecording up to its await
startRecording ==
  /\ variant = "app"
  /\ ~sessionActive
  /\ error = ""
  /\ starts < MaxStarts
  /\ starts' = starts + 1
  /\ error' = ""
  /\ insights' = NULL
  /\ transcript' = ""
  /\ pendingStarts' = Append(pendingStarts, Closure)
  /\ last' = NoRun
  /\ UNCHANGED <<config, appState, isListening, sessionActive, isProcessing,
                 sessionDuration, modalState, recording, recognition, timers, now, runs,
                 response>>

\* App.jsx:126-163 startRecording after getUserMedia resolved, and the timer
\* effect of App.jsx:34-49 when sessionActive changes
startRecordingResolved(i) ==
  /\ variant = "app"
  /\ i \in 1..Len(pendingStarts)
  /\ pendingStarts' = RemoveAt(pendingStarts, i)
  /\ recorders' = Append(recorders, [state |-> "recording", streamLive |-> TRUE,
                                     cl |-> pendingStarts[i]])
  /\ streamRef' = Len(recorders) + 1
  /\ mediaRecorderRef' = Len(recorders) + 1
  /\ isRecording' = TRUE
  /\ sessionActive' = TRUE
  /\ startTimeRef' = now
  /\ timerLive' = IF sessionActive THEN timerLive ELSE TRUE
  /\ UNCHANGED <<config, processingMode, isListening, transcript, insights, error,
                 isProcessing, sessionDuration, modalState, recognition, leakedTimer, now,
                 starts, runs, last, response>>

\* App.jsx:165-167 getUserMedia rejected: handleError(error, 'recording startup')
startRecordingRejected(i) ==
  /\ variant = "app"
  /\ i \in 1..Len(pendingStarts)
  /\ pendingStarts' = RemoveAt(pendingStarts, i)
  /\ error' = handleErrorMessage("Permission denied")
  /\ isProcessing' = FALSE
  /\ UNCHANGED <<config, appState, isListening, transcript, insights, sessionActive,
                 sessionDuration, modalState, recording, recognition, timers, now, starts,
                 runs, last, response>>

\* App.jsx:171-193 stopRecording; the Stop button (App.jsx:720-722) is rendered
\* while sessionActive and disabled while isProcessing
stopRecording ==
  /\ variant = "app"
  /\ sessionActive
  /\ ~isProcessing
  /\ LET stopRec == mediaRecorderRef # 0 /\ isRecording
         r1 == IF stopRec /\ recorders[mediaRecorderRef].state = "recording"
               THEN [recorders EXCEPT ![mediaRecorderRef].state = "stopping"]
               ELSE recorders
         r2 == IF streamRef # 0 THEN [r1 EXCEPT ![streamRef].streamLive = FALSE] ELSE r1
     IN /\ recorders' = r2
        /\ isRecording' = IF stopRec THEN FALSE ELSE isRecording
  /\ streamRef' = 0
  /\ timerLive' = FALSE
  /\ UNCHANGED <<config, processingMode, isListening, transcript, insights, error,
                 sessionActive, isProcessing, sessionDuration, modalState, mediaRecorderRef,
                 recognition, leakedTimer, startTimeRef, now, starts, pendingStarts, runs,
                 last, response>>

\* App.jsx:327-343 demoTranscript; the date it prints is one fixed date
demoTranscript(cl) ==
  "\nMeeting verwerkt met lokale analyse op 1-1-2025, 12:00:00.\nDuur: "
  \o ToString(ceilMinutes(cl.sessionDuration))
  \o " minuten.\n\nDeze lokale verwerking heeft beperkte mogelijkheden vergeleken met AI-powered analyse.\n"
  \o "Voor de beste resultaten, configureer je OpenAI API key in de instellingen.\n\n"
  \o "Hoofdpunten uit de meeting:\n- Audio opname succesvol verwerkt\n"
  \o "- Lokale analyse actief als fallback\n"
  \o "- Upgrade naar API aanbevolen voor volledige functionaliteit\n\n"
  \o "Actiepunten geidentificeerd:\n- API configuratie voltooien\n"
  \o "- Test meeting met echte API\n- Evalueer resultaat kwaliteit\n    "

\* App.jsx:348-398 localInsights
localInsights(cl) ==
  [meetingType |-> "technisch overleg",
   summary |-> "Lokale analyse van " \o ToString(ceilMinutes(cl.sessionDuration))
               \o " minuten meeting. Voor geavanceerde inzichten en betere accuracy, schakel over naar API-modus.",
   keyDecisions |-> <<"Lokale verwerking gebruikt als fallback",
                      "API configuratie prioriteit voor betere resultaten">>,
   actionItems |-> <<[task |-> "Configureer OpenAI API key voor geavanceerde analyse",
                      who |-> "Administrator", when |-> "Zo snel mogelijk", priority |-> "hoog",
                      context |-> "Lokale analyse heeft beperkte mogelijkheden vergeleken met AI"],
                     [task |-> "Test volledige API functionaliteit",
                      who |-> "Team", when |-> "Na API configuratie", priority |-> "gemiddeld",
                      context |-> "Verificeer verbeterde analyse kwaliteit"]>>,
   keyInsights |-> <<"Lokale verwerking werkt als betrouwbare fallback",
                     "Audio opname kwaliteit is goed",
                     "Gebruikersinterface functioneert correct">>,
   followUpNeeded |-> <<"API key configuratie in environment variabelen",
                        "Test verschillende meeting scenarios met API",
                        "Vergelijk resultaat kwaliteit lokaal vs API">>,
   nextSteps |-> <<"API keys verkrijgen van OpenAI platform",
                   "Environment configuratie updaten",
                   "Volledige test meeting uitvoeren">>,
   blockers |-> <<"Geen API toegang geconfigureerd",
                  "Beperkte analyse mogelijkheden in lokale modus">>,
   participants |-> <<"Onbekend (lokale analyse detecteert geen sprekers)">>,
   sentiment |-> "neutraal",
   topics |-> <<"Technische configuratie", "Meeting analyse", "API integratie">>,
   urgency |-> "gemiddeld",
   processingMethod |-> "local_fallback",
   transcriptionInfo |-> [duration |-> cl.sessionDuration,
                          language |-> "nl",
                          wordCount |-> wordCountOf(demoTranscript(cl)),
                          speakingRate |-> speakingRate(wordCountOf(demoTranscript(cl)),
                                                        cl.sessionDuration)]]

\* App.jsx:422-433 finalInsights; every transcription of the model reports
\* 60 seconds of Dutch
finalInsights(analysis, text) ==
  spread(analysis,
         [transcriptionInfo |-> [duration |-> 60, language |-> "nl",
                                 wordCount |-> wordCountOf(text),
                                 speakingRate |-> speakingRate(wordCountOf(text), 60)],
          processingMethod |-> "whisper+gpt4",
          processedAt |-> "now"])

\* App.jsx:410: the branch processAudio takes, over the closure of its render
takesModelPath(cl) == isAPIMode(cl.processingMode) /\ hasOpenAIKey

\* a catch block that falls back in mode api-only alone
catchFallsBackApiOnly(cl) == cl.processingMode = "api-only"

\* App.jsx:447: the catch block falls back when the closure's isAPIMode holds
catchFallsBack(cl) == isAPIMode(cl.processingMode)

FallbackNotice == "API verwerking mislukt, lokale analyse gebruikt. Check je internetverbinding en API configuratie."

\* App.jsx:438-442 the local branch of processAudio, with its finally block
processLocalFallback(cl) ==
  Effect(demoTranscript(cl), localInsights(cl), error, FALSE, "local", "")

\* a catch block that reports a reply it cannot parse instead of falling back
processAudioCatchReportsParseError(cl, kind, message) ==
  IF catchFallsBack(cl) /\ kind # "malformed"
  THEN Effect(demoTranscript(cl), localInsights(cl), FallbackNotice, FALSE, "fallback", kind)
  ELSE Effect(transcript, insights, handleErrorMessage(message), FALSE, "error", kind)

\* App.jsx:444-459 the catch and finally blocks of processAudio
processAudioCatch(cl, kind, message) ==
  IF catchFallsBack(cl)
  THEN Effect(demoTranscript(cl), localInsights(cl), FallbackNotice, FALSE, "fallback", kind)
  ELSE Effect(transcript, insights, handleErrorMessage(message), FALSE, "error", kind)

\* the message of the Error a failed call throws (App.jsx:215, 307, and the
\* TypeError / SyntaxError of the runtime)
errorMessage(api, kind) ==
  CASE kind = "reject" -> "Failed to fetch"
    [] kind = "http" -> api \o " API error: Unauthorized"
    [] OTHER -> "Unexpected token o in JSON at position 1"

\* App.jsx:148-155 mediaRecorder.onstop and App.jsx:405-413, 438-442, 456-459
\* processAudio up to its first await: the local branch runs to its end
onstopProcessAudio(i) ==
  /\ variant = "app"
  /\ i \in 1..Len(recorders)
  /\ recorders[i].state = "stopping"
  /\ recorders' = [recorders EXCEPT ![i].state = "inactive", ![i].cl = NoClosure]
  /\ LET cl == recorders[i].cl IN
       IF takesModelPath(cl)
       THEN /\ isProcessing' = TRUE
            /\ runs' = Append(runs, [NewRun(i, cl, "whisper") EXCEPT !.transcriptions = 1])
            /\ UNCHANGED <<transcript, insights, error, last>>
       ELSE /\ Finish(NewRun(i, cl, "done"), processLocalFallback(cl))
            /\ UNCHANGED runs
  /\ UNCHANGED <<config, appState, isListening, sessionActive, sessionDuration, modalState,
                 mediaRecorderRef, streamRef, recognition, timers, now, starts,
                 pendingStarts, response>>

\* App.jsx:196-227 transcribeWithWhisper returns or throws, then
\* App.jsx:415-419 up to the fetch of analyzeTranscriptWithGPT4 (App.jsx:282)
whisperReturns(i, out) ==
  /\ variant = "app"
  /\ i \in 1..Len(runs)
  /\ runs[i].pc = "whisper"
  /\ IF out.kind = "ok"
     THEN /\ transcript' = out.text
          /\ runs' = [runs EXCEPT ![i].pc = "gpt", ![i].text = out.text,
                                  ![i].completions = @ + 1]
          /\ UNCHANGED <<insights, error, isProcessing, last>>
     ELSE /\ Finish(runs[i], processAudioCatch(runs[i].cl, out.kind,
                                               errorMessage("Whisper", out.kind)))
          /\ runs' = RemoveAt(runs, i)
  /\ UNCHANGED <<config, appState, isListening, sessionActive, sessionDuration, modalState,
                 recording, recognition, timers, now, starts, pendingStarts, response>>

\* App.jsx:316 what analyzeTranscriptWithGPT4 hands to JSON.parse
appReplyText(text) == text

\* App.jsx:305-320 analyzeTranscriptWithGPT4 returns or throws, then
\* App.jsx:421-436 and the catch / finally blocks
gptEffect(run, out) ==
  LET analysis == IF out.kind = "ok" THEN jsonParse(appReplyText(out.text)) ELSE SyntaxError
      kind == IF out.kind = "ok" THEN "malformed" ELSE out.kind
  IN IF analysis # SyntaxError
     THEN Effect(transcript, finalInsights(analysis, run.text), error, FALSE, "model", "")
     ELSE processAudioCatch(run.cl, kind, errorMessage("GPT-4", kind))

gptReturns(i, out) ==
  /\ variant = "app"
  /\ i \in 1..Len(runs)
  /\ runs[i].pc = "gpt"
  /\ Finish(runs[i], gptEffect(runs[i], out))
  /\ runs' = RemoveAt(runs, i)
  /\ UNCHANGED <<config, appState, isListening, sessionActive, sessionDuration, modalState,
                 recording, recognition, timers, now, starts, pendingStarts, response>>

(***************************************************************************)
(* part_000: what the batch and the streaming component share.             *)
(***************************************************************************)
\* part_000:68-120 startListening of the batch component up to its await;
\* part_000:685-710 startListening of the streaming component, with the
\* effect of part_000:585-645 that runs when isListening changes: its cleanup
\* stops the recognizer that was just started and clears the interval that
\* was just set, then a new recognizer takes its place in recognitionRef
startListening(cl) ==
  /\ insights' = NULL
  /\ transcript' = ""
  /\ sessionActive' = TRUE
  /\ sessionDuration' = 0
  /\ startTimeRef' = now
  /\ leakedTimer' = (leakedTimer \/ timerLive)
  /\ last' = NoRun
  /\ IF variant = "batch"
     THEN /\ error' = ""
          /\ timerLive' = TRUE
          /\ pendingStarts' = Append(pendingStarts, cl)
          /\ UNCHANGED <<isListening, recognition>>
     ELSE /\ UNCHANGED pendingStarts
          /\ IF recognizers[recognitionRef].state \in {"idle", "ended"}
             THEN /\ error' = ""
                  /\ isListening' = TRUE
                  /\ IF isListening
                     THEN /\ recognizers' = [recognizers EXCEPT ![recognitionRef].state = "running"]
                          /\ timerLive' = TRUE
                          /\ UNCHANGED recognitionRef
                     ELSE /\ recognizers' = Append([recognizers EXCEPT ![recognitionRef].state = "stopping"],
                                                   Recognizer(TRUE))
                          /\ recognitionRef' = Len(recognizers) + 1
                          /\ timerLive' = FALSE
             ELSE /\ error' = "Spraakherkenning starten mislukt. Probeer opnieuw."
                  /\ timerLive' = FALSE
                  /\ UNCHANGED <<isListening, recognition>>

\* part_000:44-56 / 661-673 handleListenClick on the Start button, which is
\* rendered while !sessionActive and disabled by an error (part_000:324-328,
\* 959-963)
handleListenClick ==
  /\ variant \in {"batch", "stream"}
  /\ ~sessionActive
  /\ error = ""
  /\ IF permissionStatus = "granted"
     THEN /\ starts < MaxStarts
          /\ starts' = starts + 1
          /\ startListening(Closure)
          /\ UNCHANGED showPermissionModal
     ELSE /\ ~showPermissionModal
          /\ showPermissionModal' = TRUE
          /\ UNCHANGED <<isListening, transcript, insights, error, sessionActive,
                         sessionDuration, recognition, timers, starts, pendingStarts, last>>
  /\ UNCHANGED <<config, appState, isProcessing, permissionStatus, pendingChecks, recording,
                 now, runs, response>>

\* part_000:543 / 1234 the modal's cancel button
cancelPermissionModal ==
  /\ variant \in {"batch", "stream"}
  /\ showPermissionModal
  /\ showPermissionModal' = FALSE
  /\ UNCHANGED <<config, appState, isListening, transcript, insights, error, sessionActive,
                 isProcessing, sessionDuration, permissionStatus, pendingChecks, recording,
                 recognition, timers, now, starts, pendingStarts, runs, last, response>>

\* part_000:58-59 / 675-676 requestMicrophoneAccess up to its await
requestMicrophoneAccess ==
  /\ variant \in {"batch", "stream"}
  /\ showPermissionModal
  /\ starts < MaxStarts
  /\ starts' = starts + 1
  /\ pendingChecks' = Append(pendingChecks, Closure)
  /\ UNCHANGED <<config, appState, isListening, transcript, insights, error, sessionActive,
                 isProcessing, sessionDuration, showPermissionModal, permissionStatus,
                 recording, recognition, timers, now, pendingStarts, runs, last, response>>

\* part_000:30-36, 60-62 / 647-652, 677-679: the microphone was granted
microphoneGranted(i) ==
  /\ variant \in {"batch", "stream"}
  /\ i \in 1..Len(pendingChecks)
  /\ pendingChecks' = RemoveAt(pendingChecks, i)
  /\ permissionStatus' = "granted"
  /\ showPermissionModal' = FALSE
  /\ startListening(pendingChecks[i])
  /\ UNCHANGED <<config, appState, isProcessing, recording, now, starts, runs, response>>

\* part_000:36-41, 63-65 / 653-658, 680-682: the microphone was refused, with
\* a NotAllowedError or with another error
microphoneRefused(i, notAllowed) ==
  /\ variant \in {"batch", "stream"}
  /\ i \in 1..Len(pendingChecks)
  /\ pendingChecks' = RemoveAt(pendingChecks, i)
  /\ permissionStatus' = IF notAllowed THEN "denied" ELSE permissionStatus
  /\ error' = IF variant = "batch"
              THEN "Microfoon toegang is vereist voor EVE. Sta toegang toe in je browser instellingen."
              ELSE "Microfoon toegang is vereist voor EVE."
  /\ UNCHANGED <<config, appState, isListening, transcript, insights, sessionActive,
                 isProcessing, sessionDuration, showPermissionModal, recording, recognition,
                 timers, now, starts, pendingStarts, runs, last, response>>

\* App.jsx:469-481, part_000:270-280, part_000:871-880 resetSession; its
\* button is rendered inside {insights && (...)} (App.jsx:1006, part_000:374,
\* part_000:1010)
resetSession ==
  /\ variant \in {"app", "batch", "stream"}
  /\ truthy(insights)
  /\ sessionActive' = FALSE
  /\ transcript' = ""
  /\ insights' = NULL
  /\ error' = ""
  /\ sessionDuration' = 0
  /\ isProcessing' = FALSE
  /\ timerLive' = FALSE
  /\ UNCHANGED <<config, appState, isListening, modalState, recording, recognition,
                 leakedTimer, startTimeRef, now, starts, pendingStarts, runs, last, response>>

(***************************************************************************)
(* part_000:1-566 the batch component                                      *)
(***************************************************************************)
\* part_000:94-112 startListening after getUserMedia resolved
startListeningResolved(i) ==
  /\ variant = "batch"
  /\ i \in 1..Len(pendingStarts)
  /\ pendingStarts' = RemoveAt(pendingStarts, i)
  /\ recorders' = Append(recorders, [state |-> "recording", streamLive |-> TRUE,
                                     cl |-> pendingStarts[i]])
  /\ streamRef' = Len(recorders) + 1
  /\ mediaRecorderRef' = Len(recorders) + 1
  /\ isListening' = TRUE
  /\ UNCHANGED <<config, appState, transcript, insights, error, sessionActive, isProcessing,
                 sessionDuration, modalState, recognition, timers, now, starts, runs, last,
                 response>>

\* part_000:114-118 getUserMedia rejected
startListeningRejected(i) ==
  /\ variant = "batch"
  /\ i \in 1..Len(pendingStarts)
  /\ pendingStarts' = RemoveAt(pendingStarts, i)
  /\ error' = "Opname starten mislukt. Probeer opnieuw."
  /\ timerLive' = FALSE
  /\ UNCHANGED <<config, appState, isListening, transcript, insights, sessionActive,
                 isProcessing, sessionDuration, modalState, recording, recognition,
                 leakedTimer, startTimeRef, now, starts, runs, last, response>>

\* part_000:122-133 stopListening; its button (part_000:336-338) is rendered
\* while sessionActive and disabled while isProcessing.  A recorder in state
\* "stopping" is inactive with its stop event still to come.
stopListening_batch ==
  /\ variant = "batch"
  /\ sessionActive
  /\ ~isProcessing
  /\ isListening' = FALSE
  /\ timerLive' = FALSE
  /\ LET r1 == IF mediaRecorderRef # 0 /\ recorders[mediaRecorderRef].state = "recording"
               THEN [recorders EXCEPT ![mediaRecorderRef].state = "stopping"]
               ELSE recorders
     IN recorders' = IF streamRef # 0 THEN [r1 EXCEPT ![streamRef].streamLive = FALSE] ELSE r1
  /\ UNCHANGED <<config, appState, transcript, insights, error, sessionActive, isProcessing,
                 sessionDuration, modalState, mediaRecorderRef, streamRef, recognition,
                 leakedTimer, startTimeRef, now, starts, pendingStarts, runs, last, response>>

\* part_000:107-110 mediaRecorder.onstop and part_000:135-140, 156-166
\* processAudioIntelligently up to the fetch of /api/transcribe
onstopProcessAudioIntelligently(i) ==
  /\ variant = "batch"
  /\ i \in 1..Len(recorders)
  /\ recorders[i].state = "stopping"
  /\ recorders' = [recorders EXCEPT ![i].state = "inactive", ![i].cl = NoClosure]
  /\ isProcessing' = TRUE
  /\ runs' = Append(runs, [NewRun(i, recorders[i].cl, "transcribe") EXCEPT !.transcriptions = 1])
  /\ UNCHANGED <<config, appState, isListening, transcript, insights, error, sessionActive,
                 sessionDuration, modalState, mediaRecorderRef, streamRef, recognition,
                 timers, now, starts, pendingStarts, last, response>>

ProcessingFailedNotice == "Audio verwerking mislukt. Probeer opnieuw."

\* part_000:147-153 the catch block of processAudioIntelligently and the
\* statement after it
processAudioIntelligentlyCatch(t, kind) ==
  Effect(t, insights, ProcessingFailedNotice, FALSE, "error", kind)

\* part_000:144-146: the transcript is handed to generateSmartInsights
analysisWanted(transcriptText) == trim(transcriptText) # ""

\* part_000:168-173 transcribeWithWhisper returns or throws, then
\* part_000:141-153 up to the fetch of /api/analyze (part_000:201).
\* part_001:23-25: without its key the server answers 401.
transcribeReturns(i, out) ==
  /\ variant = "batch"
  /\ i \in 1..Len(runs)
  /\ runs[i].pc = "transcribe"
  /\ out.kind = "ok" => serverHasKey
  /\ IF out.kind = "ok" /\ analysisWanted(out.text)
     THEN /\ transcript' = out.text
          /\ runs' = [runs EXCEPT ![i].pc = "analyze", ![i].text = out.text,
                                  ![i].completions = @ + 1]
          /\ UNCHANGED <<insights, error, isProcessing, last>>
     ELSE /\ runs' = RemoveAt(runs, i)
          /\ Finish([runs[i] EXCEPT !.text = out.text],
                    CASE out.kind = "ok" -> Effect(out.text, insights, error, FALSE, "empty", "")
                      [] out.kind = "nofield" -> processAudioIntelligentlyCatch(UNDEFINED, out.kind)
                      [] OTHER -> processAudioIntelligentlyCatch(transcript, out.kind))
  /\ UNCHANGED <<config, appState, isListening, sessionActive, sessionDuration, modalState,
                 recording, recognition, timers, now, starts, pendingStarts, response>>

\* a generateSmartInsights that keeps the record only when the server sent one
generateSmartInsightsWithoutFallback(run, reached, resp) ==
  IF reached /\ responseOk(resp)
  THEN Effect(transcript, resp.body, error, FALSE, "model", "")
  ELSE Effect(transcript, insights, error, FALSE, "fallback",
              IF reached THEN "http" ELSE "reject")

\* part_000:207-221 generateSmartInsights after its fetch: the request did not
\* reach the server (the fetch rejects), or the server answered with resp
generateSmartInsightsEffect(run, reached, resp) ==
  IF reached /\ responseOk(resp)
  THEN Effect(transcript, resp.body, error, FALSE, "model", "")
  ELSE Effect(transcript, generateFallbackInsights(run.text, run.cl.sessionDuration), error,
              FALSE, "fallback", IF reached THEN "http" ELSE "reject")

\* the fetch of /api/analyze ends (the route of part_001:75-162 answers for
\* one outcome of its upstream fetch), then part_000:207-221 and part_000:153
analyzeReturns(i, reached, up) ==
  /\ variant = "batch"
  /\ i \in 1..Len(runs)
  /\ runs[i].pc = "analyze"
  /\ LET resp == analyzeRoute(serverHasKey, runs[i].text, up)
     IN /\ Finish(runs[i], generateSmartInsightsEffect(runs[i], reached, resp))
        /\ response' = IF reached THEN resp ELSE response
  /\ runs' = RemoveAt(runs, i)
  /\ UNCHANGED <<config, appState, isListening, sessionActive, sessionDuration, modalState,
                 recording, recognition, timers, now, starts, pendingStarts>>

(***************************************************************************)
(* part_000:568-1258 the streaming component                               *)
(***************************************************************************)
\* finalized texts a recognizer delivers (result[0].transcript)
Fragments == {"", "We moeten morgen de planning afronden."}

NoSpeechNotice == "Geen spraak gedetecteerd. Probeer opnieuw."

\* part_000:720-725: the end of stopListening, over the transcript of its render
stopListeningEffect ==
  IF trim(transcript) # ""
  THEN Effect(transcript, generateLocalInsights(transcript, sessionDuration), error, FALSE,
              "local", "")
  ELSE Effect(transcript, insights, NoSpeechNotice, FALSE, "empty", "")

\* recognition.stop() on the recognizer recognitionRef names, and, when
\* isListening changes to false, the effect of part_000:585-645: a new
\* recognizer takes its place
stopAndReplace(recs) ==
  LET stopped == IF recs[recognitionRef].state = "running"
                 THEN [recs EXCEPT ![recognitionRef].state = "stopping"]
                 ELSE recs
  IN IF isListening
     THEN /\ recognizers' = Append(stopped, Recognizer(FALSE))
          /\ recognitionRef' = Len(recs) + 1
     ELSE /\ recognizers' = stopped
          /\ UNCHANGED recognitionRef

\* part_000:712-726 stopListening; its button (part_000:971-973) is rendered
\* while sessionActive and is never disabled
stopListening_stream ==
  /\ variant = "stream"
  /\ sessionActive
  /\ isListening' = FALSE
  /\ timerLive' = FALSE
  /\ stopAndReplace(recognizers)
  /\ Finish([NewRun(0, Closure, "done") EXCEPT !.text = transcript], stopListeningEffect)
  /\ UNCHANGED <<config, appState, sessionActive, sessionDuration, modalState, recording,
                 leakedTimer, startTimeRef, now, starts, pendingStarts, runs, response>>

\* part_000:599-612 recognition.onresult with one final result
onresult(i, fragment) ==
  /\ variant = "stream"
  /\ i \in 1..Len(recognizers)
  /\ recognizers[i].state \in {"running", "stopping"}
  /\ recognizers[i].results < MaxFragments
  /\ recognizers' = [recognizers EXCEPT ![i].results = @ + 1]
  /\ transcript' = transcript \o fragment \o " "
  /\ UNCHANGED <<config, appState, isListening, insights, error, sessionActive, isProcessing,
                 sessionDuration, modalState, recording, recognitionRef, timers, now, starts,
                 pendingStarts, runs, last, response>>

\* part_000:614-623 recognition.onerror; the recognizer ends after it
onerror(i, code) ==
  /\ variant = "stream"
  /\ i \in 1..Len(recognizers)
  /\ recognizers[i].state = "running"
  /\ error' = IF code = "not-allowed"
              THEN "Microfoon toegang geweigerd. Sta toegang toe in je browser."
              ELSE "Spraakherkenning fout: " \o code
  /\ permissionStatus' = IF code = "not-allowed" THEN "denied" ELSE permissionStatus
  /\ isListening' = FALSE
  /\ timerLive' = IF isListening THEN FALSE ELSE timerLive
  /\ stopAndReplace([recognizers EXCEPT ![i].state = "stopping"])
  /\ UNCHANGED <<config, appState, transcript, insights, sessionActive, isProcessing,
                 sessionDuration, showPermissionModal, pendingChecks, recording, leakedTimer,
                 startTimeRef, now, starts, pendingStarts, runs, last, response>>

\* part_000:625-633 recognition.onend: the recognizer restarts when the
\* isListening of the render that created it is true
onend(i) ==
  /\ variant = "stream"
  /\ i \in 1..Len(recognizers)
  /\ recognizers[i].state \in {"running", "stopping"}
  /\ recognizers' = [recognizers EXCEPT ![i] =
                        IF recognizers[i].isListening
                        THEN [@ EXCEPT !.state = "running"]
                        ELSE [@ EXCEPT !.state = "ended", !.results = 0]]
  /\ UNCHANGED <<config, appState, isListening, transcript, insights, error, sessionActive,
                 isProcessing, sessionDuration, modalState, recording, recognitionRef, timers,
                 now, starts, pendingStarts, runs, last, response>>

(***************************************************************************)
(* part_001 the server, asked by any client                                *)
(***************************************************************************)
postAnalyze(reqTranscript, up) ==
  /\ variant = "server"
  /\ response' = analyzeRoute(serverHasKey, reqTranscript, up)
  /\ UNCHANGED <<config, appState, isListening, transcript, insights, error, sessionActive,
                 isProcessing, sessionDuration, modalState, recording, recognition, timers,
                 now, starts, pendingStarts, runs, last>>

(***************************************************************************)
(* The extractors of part_000 called on their own: text and                *)
(* sessionDuration are what the caller hands over and what its closure     *)
(* holds; the record goes to insights, as setInsights stores it.           *)
(***************************************************************************)
\* an extractor whose record depends on how often it was called before
callGenerateLocalInsightsCounting ==
  /\ variant = "extract"
  /\ starts < MaxStarts
  /\ starts' = starts + 1
  /\ insights' = generateLocalInsights(transcript, sessionDuration + starts)
  /\ last' = [NoRun EXCEPT !.path = "local", !.text = transcript, !.transcript = transcript,
                           !.insights = insights']
  /\ UNCHANGED <<config, appState, isListening, transcript, error, sessionActive, isProcessing,
                 sessionDuration, modalState, recording, recognition, timers, now,
                 pendingStarts, runs, response>>

\* part_000:728-863 generateLocalInsights(transcript)
callGenerateLocalInsights ==
  /\ variant = "extract"
  /\ starts < MaxStarts
  /\ starts' = starts + 1
  /\ insights' = generateLocalInsights(transcript, sessionDuration)
  /\ last' = [NoRun EXCEPT !.path = "local", !.text = transcript, !.transcript = transcript,
                           !.insights = insights']
  /\ UNCHANGED <<config, appState, isListening, transcript, error, sessionActive, isProcessing,
                 sessionDuration, modalState, recording, recognition, timers, now,
                 pendingStarts, runs, response>>

\* part_000:224-262 generateFallbackInsights(text), whose record
\* generateSmartInsights stores (part_000:213-214)
callGenerateFallbackInsights ==
  /\ variant = "extract"
  /\ starts < MaxStarts
  /\ starts' = starts + 1
  /\ insights' = generateFallbackInsights(transcript, sessionDuration)
  /\ last' = [NoRun EXCEPT !.path = "fallback", !.text = transcript, !.transcript = transcript,
                           !.insights = insights']
  /\ UNCHANGED <<config, appState, isListening, transcript, error, sessionActive, isProcessing,
                 sessionDuration, modalState, recording, recognition, timers, now,
                 pendingStarts, runs, response>>

Next ==
  \/ Tick
  \/ \E m \in Modes : setProcessingMode(m)
  \/ startRecording
  \/ \E i \in 1..MaxStarts : startRecordingResolved(i)
  \/ \E i \in 1..MaxStarts : startRecordingRejected(i)
  \/ stopRecording
  \/ \E i \in 1..MaxStarts : onstopProcessAudio(i)
  \/ \E i \in 1..MaxStarts, out \in WhisperOutcomes : whisperReturns(i, out)
  \/ \E i \in 1..MaxStarts, out \in CompletionOutcomes : gptReturns(i, out)
  \/ resetSession
  \/ handleListenClick
  \/ cancelPermissionModal
  \/ requestMicrophoneAccess
  \/ \E i \in 1..MaxStarts : microphoneGranted(i)
  \/ \E i \in 1..MaxStarts, notAllowed \in BOOLEAN : microphoneRefused(i, notAllowed)
  \/ \E i \in 1..MaxStarts : startListeningResolved(i)
  \/ \E i \in 1..MaxStarts : startListeningRejected(i)
  \/ stopListening_batch
  \/ \E i \in 1..MaxStarts : onstopProcessAudioIntelligently(i)
  \/ \E i \in 1..MaxStarts, out \in TranscriptionOutcomes : transcribeReturns(i, out)
  \/ \E i \in 1..MaxStarts, reached \in BOOLEAN, up \in CompletionOutcomes :
        analyzeReturns(i, reached, up)
  \/ stopListening_stream
  \/ \E i \in 1..(2 * MaxStarts + 1), fragment \in Fragments : onresult(i, fragment)
  \/ \E i \in 1..(2 * MaxStarts + 1), code \in {"not-allowed", "no-speech"} : onerror(i, code)
  \/ \E i \in 1..(2 * MaxStarts + 1) : onend(i)
  \/ \E reqTranscript \in Texts, up \in CompletionOutcomes : postAnalyze(reqTranscript, up)
  \/ callGenerateLocalInsights
  \/ callGenerateFallbackInsights

Spec == Init /\ [][Next]_vars

(***************************************************************************)
(* Properties.                                                             *)
(***************************************************************************)
\* a transcript that holds more than white space
Nonempty(t) == t # UNDEFINED /\ trim(t) # ""

\* the step is the stop event of recorder i reaching processAudio
onstopFired(i) ==
  /\ variant = "app"
  /\ i <= Len(recorders)
  /\ recorders[i].state = "stopping"
  /\ recorders'[i].state = "inactive"

\* C1: in App.jsx, an extraction on the model path whose transcription or
\* completion failed (rejected fetch, non-2xx response, reply JSON.parse
\* rejects) ends with the record of the local path, whose processingMethod
\* is 'local_fallback', and with isProcessing false.
C1_FailureFallsBack ==
  (variant = "app" /\ last.failure # "") =>
     /\ last.path = "fallback"
     /\ last.insights = localInsights([processingMode |-> "auto",
                                       sessionDuration |-> last.insights.transcriptionInfo.duration])
     /\ last.insights.processingMethod = "local_fallback"
     /\ last.insights.processingMethod # "whisper+gpt4"
     /\ ~last.isProcessing

C1_Witness ==
  /\ variant = "app"
  /\ last.failure \in {"reject", "http", "malformed"}
  /\ last.transcriptions = 1
  /\ last.path = "fallback"
  /\ insights = last.insights
  /\ ~isProcessing

\* the transcript the last extraction worked on: the text its transcription
\* or the recognizer delivered, or the text processLocalFallback wrote
ownTranscript ==
  IF variant = "app" /\ last.path \in {"local", "fallback"} THEN last.transcript ELSE last.text

transcriptArrived == variant = "stream" \/ last.path = "empty" \/ last.completions > 0

\* C3 (as stated): when the transcript at extraction time is empty or white
\* space only, no extractor is invoked, insights stays null and an error
\* notice is shown, in the streaming variant, the batch variant and App.jsx.
C3_EmptyTranscriptReported ==
  (last.path # "none" /\ transcriptArrived /\ trim(last.text) = "") =>
     /\ last.completions = 0
     /\ last.insights = NULL
     /\ last.error # ""

\* C4 (as stated): in App.jsx, when processingMode is 'local-only', or 'auto'
\* without a key, processAudio issues no remote request and sets the record
\* of the local path.
C4_LocalRoutingIsLocal ==
  [][\A i \in 1..MaxStarts :
       (onstopFired(i) /\ (processingMode = "local-only"
                           \/ (processingMode = "auto" /\ ~hasOpenAIKey)))
       => (runs' = runs /\ last'.path = "local"
           /\ insights'.processingMethod = "local_fallback")]_vars

\* C5 (as stated): in App.jsx, when processingMode is 'api-only', or 'auto'
\* with the model available, processAudio issues a remote request before any
\* local analysis.
C5_ModelRoutingIsRemote ==
  [][\A i \in 1..MaxStarts :
       (onstopFired(i) /\ (processingMode = "api-only"
                           \/ (processingMode = "auto" /\ hasOpenAIKey)))
       => (Len(runs') = Len(runs) + 1 /\ runs'[Len(runs')].transcriptions = 1
           /\ last' = last)]_vars

\* C6 (as stated): every fall back from the model path to the local path (the
\* catch of processAudio, the non-ok and catch branches of
\* generateSmartInsights) leaves a notice in error together with the record.
C6_FallbackHasNotice ==
  last.path = "fallback" => (last.error # "" /\ last.insights # NULL)

ListFields == {"keyDecisions", "actionItems", "keyInsights", "followUpNeeded",
               "nextSteps", "blockers", "participants"}

\* C7 (as stated): every record produced for a non-empty transcript, by
\* generateLocalInsights, generateFallbackInsights and the model path, holds
\* every list field, and none of them is empty.
C7_ListFieldsNonEmpty ==
  (last.path \in {"local", "fallback", "model"} /\ variant \in {"batch", "stream", "app"}
   /\ Nonempty(ownTranscript) /\ isObject(last.insights)) =>
     \A f \in ListFields : f \in DOMAIN last.insights /\ Len(last.insights[f]) > 0

\* C8 (as stated): every record stored in insights, by any path of any
\* variant, has processingMethod set to a value that tells the model path
\* from the local path.
C8_ProcessingMethodSet ==
  insights # NULL =>
     /\ isObject(insights)
     /\ "processingMethod" \in DOMAIN insights
     /\ insights.processingMethod \in {"whisper+gpt4", "local_fallback"}

finalState(eff) == <<eff.transcript, eff.insights, eff.error, eff.isProcessing, eff.path>>

\* C10: a model reply that is no JSON leaves the same final state as a
\* network failure of the model call: the same record, the same notice,
\* processing finished; in App.jsx directly, and in the batch component
\* through /api/analyze, which answers the parse failure with a 500.
C10_MalformedReplyAsNetworkFailure ==
  \A i \in 1..Len(runs) :
     /\ runs[i].pc = "gpt" =>
          /\ finalState(gptEffect(runs[i], Ok(ReplyNotJson)))
               = finalState(gptEffect(runs[i], Fail("reject")))
          /\ gptEffect(runs[i], Ok(ReplyNotJson)).path = "fallback"
          /\ ~gptEffect(runs[i], Ok(ReplyNotJson)).isProcessing
     /\ runs[i].pc = "analyze" =>
          LET malformed == analyzeRoute(serverHasKey, runs[i].text, Ok(ReplyNotJson))
              network == analyzeRoute(serverHasKey, runs[i].text, Fail("reject"))
          IN /\ ~responseOk(malformed)
             /\ finalState(generateSmartInsightsEffect(runs[i], TRUE, malformed))
                  = finalState(generateSmartInsightsEffect(runs[i], TRUE, network))
             /\ finalState(generateSmartInsightsEffect(runs[i], TRUE, malformed))
                  = finalState(generateSmartInsightsEffect(runs[i], FALSE, NoResponse))
             /\ generateSmartInsightsEffect(runs[i], TRUE, malformed).path = "fallback"

C10_Witness ==
  /\ variant = "app"
  /\ last.failure = "malformed"
  /\ last.path = "fallback"
  /\ last.text = TextPlan
  /\ insights = last.insights
  /\ error = FallbackNotice
  /\ ~isProcessing

\* the values the enum fields of a record may hold
MeetingTypes == {"standup", "brainstorm", "beslissing", "update", "planning", "evaluatie", "overleg"}
Priorities == {"hoog", "gemiddeld", "laag"}
Sentiments == {"positief", "neutraal", "negatief"}

\* every action item of the record has its priority in the set
prioritiesInSet(record) ==
  "actionItems" \in DOMAIN record =>
     \A i \in 1..Len(record.actionItems) : record.actionItems[i].priority \in Priorities

\* C11 (as stated): every record of a local path (generateLocalInsights,
\* generateFallbackInsights, processLocalFallback) has its meetingType in
\* {standup, brainstorm, beslissing, update, planning, evaluatie, overleg}
\* and the priority of every action item in {hoog, gemiddeld, laag}.
C11_LocalEnumsInSet ==
  (last.path \in {"local", "fallback"} /\ isObject(last.insights)) =>
     /\ last.insights.meetingType \in MeetingTypes
     /\ prioritiesInSet(last.insights)

\* C12 (as stated): a model reply that parses but holds an enum field
\* (priority, meetingType, sentiment, urgency) outside its set is stored with
\* that field replaced by the default, never with the value of the reply.
C12_ModelEnumsCoerced ==
  (last.path = "model" /\ isObject(last.insights)) =>
     /\ "meetingType" \in DOMAIN last.insights => last.insights.meetingType \in MeetingTypes
     /\ prioritiesInSet(last.insights)
     /\ "sentiment" \in DOMAIN last.insights => last.insights.sentiment \in Sentiments
     /\ "urgency" \in DOMAIN last.insights => last.insights.urgency \in Priorities

\* C13 (as stated): a reply that is valid JSON inside a markdown code fence is
\* accepted by the model path, in App.jsx analyzeTranscriptWithGPT4 and in
\* the route /api/analyze: it gives the record the bare JSON gives, and no
\* fall back.
C13_FencedReplyAccepted ==
  \A i \in 1..Len(runs) :
     /\ runs[i].pc = "gpt" =>
          /\ gptEffect(runs[i], Ok(ReplyFenced)).path = "model"
          /\ gptEffect(runs[i], Ok(ReplyFenced)) = gptEffect(runs[i], Ok(ReplyFull))
     /\ runs[i].pc = "analyze" =>
          LET fenced == analyzeRoute(serverHasKey, runs[i].text, Ok(ReplyFenced))
              bare == analyzeRoute(serverHasKey, runs[i].text, Ok(ReplyFull))
          IN /\ responseOk(fenced)
             /\ fenced = bare
             /\ generateSmartInsightsEffect(runs[i], TRUE, fenced).path = "model"

\* C14 (as stated): at most one extraction (processAudio,
\* processAudioIntelligently) is in flight, whatever the order of the user's
\* clicks and of the onstop and getUserMedia callbacks.
C14_OneExtractionInFlight ==
  Len(runs) <= 1

\* C15: within one session the record is written at most once: a step that
\* starts from a state with a record and is not a start or a reset leaves the
\* record as it is; a second stopListening does not produce a new record.
C15_RecordWrittenOnce ==
  [][(variant \in {"app", "batch", "stream"} /\ insights # NULL /\ insights' # NULL)
       => insights' = insights]_vars

\* the state resetSession leaves behind
sessionCleared ==
  /\ ~sessionActive
  /\ transcript = ""
  /\ insights = NULL
  /\ error = ""
  /\ sessionDuration = 0

\* a step of the next start: a click on the start button, a request for the
\* microphone, or its answer
startStep ==
  \/ starts' # starts
  \/ pendingStarts' # pendingStarts
  \/ pendingChecks' # pendingChecks
  \/ showPermissionModal' # showPermissionModal
  \/ permissionStatus' # permissionStatus

\* C16: once the session state is cleared it stays cleared until the next
\* start: no late recognizer result, timer tick or pending reply of the
\* previous session writes into it.
C16_ClearedUntilNextStart ==
  [][(variant \in {"app", "batch", "stream"} /\ sessionCleared /\ ~startStep)
       => sessionCleared']_vars

\* the action items of the record the stream extractor produced last
localActionItems ==
  IF variant \in {"stream", "extract"} /\ last.path = "local" /\ isObject(last.insights)
  THEN last.insights.actionItems ELSE <<>>

\* C17: in generateLocalInsights the highest tier matched wins: an action item
\* whose sentence holds a high-tier keyword has priority 'hoog' whatever else
\* it holds, and one with a medium-tier keyword and no high-tier one has
\* 'gemiddeld', whatever the order of the keywords in the sentence.
C17_HighestTierWins ==
  \A i \in 1..Len(localActionItems) :
    LET item == localActionItems[i] IN
      /\ matchesAny(item.task, actionKeywordsHoog) => item.priority = "hoog"
      /\ (~matchesAny(item.task, actionKeywordsHoog)
            /\ matchesAny(item.task, actionKeywordsGemiddeld)) => item.priority = "gemiddeld"

\* a record with a high-and-low sentence (low keyword first) ranked 'hoog' and a
\* medium-and-low sentence ranked 'gemiddeld'
C17_Witness ==
  /\ variant = "extract"
  /\ \E i, j \in 1..Len(localActionItems) :
        /\ localActionItems[i].task = "Misschien is dit punt toch heel urgent"
        /\ matchesAny(localActionItems[i].task, actionKeywordsLaag)
        /\ localActionItems[i].priority = "hoog"
        /\ matchesAny(localActionItems[j].task, actionKeywordsGemiddeld)
        /\ matchesAny(localActionItems[j].task, actionKeywordsLaag)
        /\ ~matchesAny(localActionItems[j].task, actionKeywordsHoog)
        /\ localActionItems[j].priority = "gemiddeld"

\* the record a heuristic extractor produced last, NULL when there is none
heuristicRecord ==
  IF variant \in {"batch", "stream", "extract"} /\ last.path \in {"local", "fallback"}
     /\ isObject(last.insights)
  THEN last.insights ELSE NULL

\* C18: no sentence appears in both keyDecisions and keyInsights of the record
\* of a heuristic extractor (generateLocalInsights, generateFallbackInsights).
C18_DecisionsAndInsightsDisjoint ==
  isObject(heuristicRecord) =>
    \A i \in 1..Len(heuristicRecord.keyDecisions), j \in 1..Len(heuristicRecord.keyInsights) :
      trim(heuristicRecord.keyDecisions[i]) # trim(heuristicRecord.keyInsights[j])

\* C19: for the example transcript generateLocalInsights returns exactly one
\* action item, due 'morgen', owned by 'Jan' (or by the placeholder
\* 'te bepalen').
C19_ExampleActionItem ==
  (variant = "extract" /\ last.path = "local" /\ last.text = TextPlan) =>
    /\ Len(last.insights.actionItems) = 1
    /\ last.insights.actionItems[1].when = "morgen"
    /\ last.insights.actionItems[1].who \in {"Jan", "te bepalen"}

ModelFailureKinds == FailureKinds \cup {"malformed"}

\* C21: the notice surfaced on fallback tells the failure kinds apart: the
\* notice shown after a failure of one kind differs from the notice the same
\* catch block gives for a failure of any other kind.
C21_NoticeTellsKindsApart ==
  (variant = "app" /\ last.path = "fallback" /\ catchFallsBack(Closure)) =>
    \A kind \in ModelFailureKinds \ {last.failure} :
      processAudioCatch(Closure, kind, errorMessage("GPT-4", kind)).error # last.error

\* C22: every response of POST /api/analyze is either a 2xx response whose
\* body is the parsed record with processingMethod set, or a non-2xx response
\* whose body is {error: string}.
C22_AnalyzeResponseShape ==
  (variant = "server" /\ response # NoResponse) =>
    \/ /\ responseOk(response)
       /\ isObject(response.body)
       /\ "processingMethod" \in DOMAIN response.body
    \/ /\ ~responseOk(response)
       /\ isObject(response.body)
       /\ DOMAIN response.body = {"error"}

\* C23: in the streaming variant, while isListening is true a started
\* recognizer is active and the duration timer is running: no effect cleanup
\* caused by isListening changing has stopped either of them.
C23_ListeningKeepsRecognizerAndTimer ==
  (variant = "stream" /\ isListening) =>
    /\ timerLive
    /\ \E i \in 1..Len(recognizers) : recognizers[i].state = "running"

\* the first keyword of the list that the sentence holds, else `initial`
firstMatch(sentence, keywords, initial) ==
  LET lower == toLowerCase(sentence)
      hits == {i \in 1..Len(keywords) : includes(lower, keywords[i])}
  IN IF hits = {} THEN initial
     ELSE keywords[CHOOSE i \in hits : \A j \in hits : i <= j]

\* C24: in generateLocalInsights the owner of an action item comes from the
\* first pattern of the person list that its sentence holds and its dueHint
\* is the first deadline phrase of the list that it holds; with no match they
\* are 'te bepalen' and 'te plannen'.
C24_FirstMatchWins ==
  \A i \in 1..Len(localActionItems) :
    LET item == localActionItems[i]
        person == firstMatch(item.task, personKeywords, "")
    IN isActionSentence(item.task) =>
         /\ item.who = (IF person = "" THEN "te bepalen" ELSE firstWord(person))
         /\ item.when = firstMatch(item.task, timeKeywords, "te plannen")

\* C25: when the transcription succeeded and only the model analysis failed,
\* the fallback of processAudio leaves the session transcript equal to the
\* transcribed text; it never replaces it with synthesized text.
C25_FallbackKeepsTranscript ==
  (variant = "app" /\ last.path = "fallback" /\ last.completions > 0 /\ last.text # "") =>
    last.transcript = last.text

\* the keyInsights of the record the stream extractor produced last, without
\* the placeholder of part_000:846
localKeyInsights ==
  IF variant \in {"stream", "extract"} /\ last.path = "local" /\ isObject(last.insights)
  THEN SelectSeq(last.insights.keyInsights,
                 LAMBDA s : s # "Gesprek bevat waardevolle informatie voor verdere uitwerking")
  ELSE <<>>

\* C26: no keyInsights entry of generateLocalInsights is a sentence that
\* matches a decision keyword or that was classified as an action item, also
\* for decision sentences beyond the cap of 5.
C26_InsightsNotDecisionsOrActions ==
  \A j \in 1..Len(localKeyInsights) :
    /\ ~matchesAny(localKeyInsights[j], decisionKeywords)
    /\ \A i \in 1..Len(localActionItems) :
         localActionItems[i].task # trim(localKeyInsights[j])

\* the record generateLocalInsights produced last, NULL when there is none
localRecord ==
  IF variant \in {"stream", "extract"} /\ last.path = "local" /\ isObject(last.insights)
  THEN last.insights ELSE NULL

\* the text generateLocalInsights was called with, in lower case
localWords == toLowerCase(last.text)

\* C27: in generateLocalInsights the last rule that holds decides meetingType,
\* in the order brainstorm keyword, more than 2 decisions, update / status
\* keyword, more than 3 action items, retrospective / evaluation keyword; it
\* is 'overleg' when none holds.
C27_LastRuleWins ==
  isObject(localRecord) =>
    localRecord.meetingType =
      (IF includes(localWords, "retrospectief") \/ includes(localWords, "evaluatie")
       THEN "evaluatie"
       ELSE IF localRecord.stats.actionItems > 3 THEN "planning"
       ELSE IF includes(localWords, "update") \/ includes(localWords, "status") THEN "update"
       ELSE IF localRecord.stats.decisions > 2 THEN "beslissing"
       ELSE IF includes(localWords, "brainstorm") \/ includes(localWords, "ideeen")
       THEN "brainstorm"
       ELSE "overleg")

\* a text with an evaluation keyword, a brainstorm keyword and more than 3
\* action items was classified 'evaluatie'
C27_Witness ==
  /\ isObject(localRecord)
  /\ localRecord.stats.actionItems > 3
  /\ includes(localWords, "evaluatie")
  /\ includes(localWords, "brainstorm")
  /\ localRecord.meetingType = "evaluatie"

\* the session was stopped and its timers are gone: sessionDuration holds the
\* elapsed time at the moment of the stop
stoppedSession ==
  /\ sessionActive
  /\ ~timerLive
  /\ ~leakedTimer
  /\ ~isRecording
  /\ ~isListening
  /\ runs = <<>>

\* C28: the minutes that a locally produced record reports are those of the
\* session's elapsed duration at the moment the session was stopped, not of a
\* sessionDuration captured when the session was started.
C28_DurationAtStop ==
  /\ (variant = "app" /\ stoppedSession /\ last.path \in {"local", "fallback"}) =>
        last.insights.summary = localInsights(Closure).summary
  /\ (variant = "batch" /\ stoppedSession /\ last.path = "fallback") =>
        last.insights.summary = generateFallbackInsights(last.text, sessionDuration).summary

\* nothing is recording, nothing is processing and no request is pending
nothingRunning ==
  /\ ~isRecording
  /\ ~isListening
  /\ ~isProcessing
  /\ runs = <<>>
  /\ pendingStarts = <<>>
  /\ pendingChecks = <<>>
  /\ \A i \in 1..Len(recorders) : recorders[i].state = "inactive"

\* the Start button is rendered and enabled, or the permission modal with its
\* allow button is open
startButtonEnabled == (~sessionActive /\ error = "") \/ showPermissionModal

\* the reset button is rendered
resetButtonVisible == truthy(insights)

\* C29: whenever nothing is recording and nothing is processing, the user has
\* an enabled control that leads to a new session: the Start button enabled
\* or the reset button visible.
C29_NewSessionReachable ==
  (variant \in {"app", "batch", "stream"} /\ nothingRunning) =>
    (startButtonEnabled \/ resetButtonVisible)

\* the recorders of `recs` that record or whose microphone stream is open
activeRecorders(recs) ==
  {i \in 1..Len(recs) : recs[i].state = "recording" \/ recs[i].streamLive}

\* C30: at most one MediaRecorder / microphone stream opened by App.jsx is
\* active at any time, and after stopRecording none remains active, also when
\* startRecording is invoked again while an earlier call awaits getUserMedia.
C30_AtMostOneRecorder ==
  [][variant = "app" =>
       /\ Cardinality(activeRecorders(recorders')) <= 1
       /\ (streamRef # 0 /\ streamRef' = 0) => activeRecorders(recorders') = {}]_vars


====
